---- MODULE Spec2Model ----
(***************************************************************************)
(* A model of the asadm client utilities (lib/client/util.py):             *)
(*   - concurrent_map : the thread-per-datum fan-out executor              *)
(*   - cached         : the TTL memoizing wrapper                          *)
(*   - info_to_dict   : the info-protocol text parser                      *)
(* Each component has its own specification (SpecFanout, SpecCache,        *)
(* SpecParser); the variables of the other components stay idle in it.     *)
(* Text is modelled as a sequence of one-character strings.                *)
(***************************************************************************)
EXTENDS Integers, Sequences, FiniteSets, Bags, TLC

VARIABLES
    \* ---- concurrent_map ----
    data,       \* the indexable sequence of arguments (node identifiers)
    func,       \* the operation: per node, the value it returns or "raise"
    result,     \* the preallocated result list, [None] * N
    threads,    \* per worker thread: "new", "started", "evaluated", "done", "dead"
    tret,       \* per worker thread: the value func returned, before it is stored
    mainpc,     \* the caller's position: "start", "join", "returned"
    mi,         \* the caller's loop index in the start loop and in the join loop
    \* ---- cached ----
    ttl,        \* self.ttl
    now,        \* the value time() returns
    cache,      \* self.cache: a function from the stored keys to (value, eol)
    calls,      \* number of uses of the object made so far: c(*key) and c[key] = value
    c_act,      \* per caller: the call it is in, from __call__ to its return
    c_setting,  \* the bag of c[key] = value under way: time() is read, the entry not yet stored
    c_hist,     \* per key: history of the calls made with that key
    \* ---- info_to_dict ----
    p_value,    \* the text handed to the parser
    p_delim,    \* the field delimiter
    p_strict,   \* ignore_field_without_key_value_delimiter
    p_pc,       \* "ready", "done" (info_to_dict), "done_multi" (info_to_dict_multi_level)
    p_out,      \* the record info_to_dict returned
    p_exc,      \* the exception that left the call, or "none"
    m_keyname,  \* the keyname argument of info_to_dict_multi_level
    m_out,      \* the mapping info_to_dict_multi_level returned
    \* ---- parse_peers_string ----
    q_s,        \* the text handed to parse_peers_string
    q_pc,       \* "ready", "done"
    q_out,      \* the returned list
    q_exc,      \* the exception that left the call, or "none"
    \* ---- CliView.group_output ----
    g_output,   \* the text handed to group_output
    g_i,        \* the generator's index i (the source counts from 0, the model from 1)
    g_groups,   \* the groups yielded so far
    g_pc,       \* "running", "done" (the generator is exhausted)
    \* ---- the diff highlighting of CliView.watch ----
    d_previous, \* previous: the raw output of the iteration before
    d_output,   \* output: the raw output of this iteration
    d_result,   \* result: the text that is printed
    d_pc,       \* "ready", "done"
    \* ---- CliView.watch ----
    w_line,            \* line: the words handed to watch, then the command left of them
    w_color_enabled,   \* terminal.color_enabled
    w_sleep,           \* sleep, in tenths of a second
    w_num_iterations,  \* num_iterations; 0 stands for False
    w_diff_highlight,  \* diff_highlight
    w_stdout,          \* sys.stdout: "real_stdout" or "mystdout"
    w_previous,        \* previous: <<>> for None, <<text>> for a text
    w_count,           \* count
    w_pc,              \* "start", "execute", "sleep", "returned", "raised"
    w_exc,             \* the exception that reaches the caller of watch, or "none"
    w_raised,          \* the exception raised inside watch, or "none"
    w_outputs,         \* the raw outputs captured so far, in order
    w_printed,         \* what was printed on real_stdout, in order
    w_executes,        \* how many times ctrl.execute was called
    w_sleeps           \* how many times time.sleep was called

fanoutVars == <<data, func, result, threads, tret, mainpc, mi>>
cacheVars  == <<ttl, now, cache, calls, c_act, c_setting, c_hist>>
parserVars == <<p_value, p_delim, p_strict, p_pc, p_out, p_exc, m_keyname, m_out>>
peersVars  == <<q_s, q_pc, q_out, q_exc>>
groupVars  == <<g_output, g_i, g_groups, g_pc>>
diffVars   == <<d_previous, d_output, d_result, d_pc>>
watchVars  == <<w_line, w_color_enabled, w_sleep, w_num_iterations, w_diff_highlight,
                 w_stdout, w_previous, w_count, w_pc, w_exc, w_raised, w_outputs,
                 w_printed, w_executes, w_sleeps>>
vars == <<fanoutVars, cacheVars, parserVars, peersVars, groupVars, diffVars, watchVars>>

(***************************************************************************)
(* Bounds of the model.                                                    *)
(***************************************************************************)
MaxData == 3
MaxTime == 2
MaxTtl == 2
MaxCalls == 2
MaxFields == 3
MaxSections == 2
MaxPeerLen == 4
MaxOutputLen == 4
MaxPreviousLen == 2
MaxFrameLen == 3
MaxCount == 3

\* Python's None
None == "None"

\* All sequences over S of length at most n
RECURSIVE SeqsUpTo(_, _)
SeqsUpTo(S, n) ==
    IF n = 0 THEN {<<>>}
    ELSE LET shorter == SeqsUpTo(S, n - 1)
         IN  shorter \cup {Append(s, x) : s \in {t \in shorter : Len(t) = n - 1}, x \in S}

(***************************************************************************)
(* concurrent_map(func, data)                                              *)
(***************************************************************************)
NodeIds == {"n1", "n2", "n3"}

\* What one call of the operation on a node can do: return a value (possibly
\* None) or raise.
Raise == "raise"
RetValue(n) == "value_of_" \o n
Outcomes(n) == {RetValue(n), None, Raise}

N == Len(data)

FanoutIdle ==
    /\ data = <<>>
    /\ func = [n \in NodeIds |-> None]
    /\ result = <<>>
    /\ threads = <<>>
    /\ tret = <<>>
    /\ mainpc = "idle"
    /\ mi = 0

\* lines 191-202: N = len(data); result = [None] * N; the threads are created
FanoutInit ==
    /\ data \in SeqsUpTo(NodeIds, MaxData)
    /\ func \in {f \in [NodeIds -> UNION {Outcomes(n) : n \in NodeIds}] :
                    \A n \in NodeIds : f[n] \in Outcomes(n)}
    /\ result = [i \in 1..Len(data) |-> None]
    /\ threads = [i \in 1..Len(data) |-> "new"]
    /\ tret = [i \in 1..Len(data) |-> None]
    /\ mainpc = "start"
    /\ mi = 1

\* line 199: the store into the slot of thread i
Store_first(res, i, v) == [res EXCEPT ![1] = v]
Store(res, i, v) == [res EXCEPT ![i] = v]

\* line 206: t.join() returns once thread i has finished (normally or by an
\* uncaught exception)
Joinable_nowait(i) == TRUE
Joinable(i) == threads[i] \in {"done", "dead"}

\* lines 203-204: for t in threads: t.start()
StartThread ==
    /\ mainpc = "start"
    /\ mi <= N
    /\ threads' = [threads EXCEPT ![mi] = "started"]
    /\ mi' = mi + 1
    /\ UNCHANGED <<data, func, result, tret, mainpc>>

\* the start loop is exhausted; the join loop begins
StartLoopExit ==
    /\ mainpc = "start"
    /\ mi > N
    /\ mainpc' = "join"
    /\ mi' = 1
    /\ UNCHANGED <<data, func, result, threads, tret>>

\* lines 205-206: for t in threads: t.join()
JoinThread ==
    /\ mainpc = "join"
    /\ mi <= N
    /\ Joinable(mi)
    /\ mi' = mi + 1
    /\ UNCHANGED <<data, func, result, threads, tret, mainpc>>

\* line 208: return result
Return ==
    /\ mainpc = "join"
    /\ mi > N
    /\ mainpc' = "returned"
    /\ UNCHANGED <<data, func, result, threads, tret, mi>>

\* line 199, right-hand side: thread i evaluates func(data[i]); an exception
\* is not caught by task_wrapper, so the thread ends without storing
Evaluate(i) ==
    /\ threads[i] = "started"
    /\ IF func[data[i]] = Raise
       THEN /\ threads' = [threads EXCEPT ![i] = "dead"]
            /\ UNCHANGED tret
       ELSE /\ threads' = [threads EXCEPT ![i] = "evaluated"]
            /\ tret' = [tret EXCEPT ![i] = func[data[i]]]
    /\ UNCHANGED <<data, func, result, mainpc, mi>>

\* line 199, the assignment: result[i] = <value>
Write(i) ==
    /\ threads[i] = "evaluated"
    /\ result' = Store(result, i, tret[i])
    /\ threads' = [threads EXCEPT ![i] = "done"]
    /\ UNCHANGED <<data, func, tret, mainpc, mi>>

FanoutNext ==
    \/ StartThread
    \/ StartLoopExit
    \/ JoinThread
    \/ Return
    \/ \E i \in 1..N : Evaluate(i)
    \/ \E i \in 1..N : Write(i)

FanoutUnchanged == UNCHANGED fanoutVars

(***************************************************************************)
(* class cached                                                            *)
(***************************************************************************)
\* argument tuples the wrapped operation is called with
Keys == {<<"n1">>, <<"n2">>}
\* values the wrapped operation can return; a node call may answer differently
\* each time it is made
CacheValues == {"x", "y"}

\* the callers of one cached object: two threads, or a caller and the wrapped
\* operation calling the same object while it runs
Callers == {"A", "B"}

\* the history of the calls with one key before any call: first and firstVal
\* are the time and the value of the first store made by a call, storedAt the
\* time of the latest store, invSince the number of invocations of func from
\* the one stored first on, late whether a call read time() at or after
\* first + ttl, serial whether the calls with the key came one after the other
\* with no c[key] = value between them
NoHist == [first |-> -1, firstVal |-> None, invSince |-> 0, storedAt |-> -1,
           late |-> FALSE, lastOutcome |-> "none", lastRet |-> None,
           prevRaised |-> FALSE, serial |-> TRUE]
\* a caller that is in no call
NoAct == [pc |-> "idle", key |-> <<>>, seen |-> <<>>, seenAt |-> -1, fresh |-> None, t |-> -1]

CacheIdle ==
    /\ ttl = 0
    /\ now = 0
    /\ cache = <<>>
    /\ calls = 0
    /\ c_act = [c \in Callers |-> NoAct]
    /\ c_setting = EmptyBag
    /\ c_hist = [k \in Keys |-> NoHist]

\* lines 215-218: __init__
CacheInit ==
    /\ ttl \in 0..MaxTtl
    /\ now = 0
    /\ cache = <<>>
    /\ calls = 0
    /\ c_act = [c \in Callers |-> NoAct]
    /\ c_setting = EmptyBag
    /\ c_hist = [k \in Keys |-> NoHist]

\* line 221: the expiry instant of an entry stored at time t
Expiry_nottl(t, life) == t
Expiry(t, life) == t + life

\* line 226: eol > time()
IsLive_ge(eol, t) == eol >= t
IsLive(eol, t) == eol > t

\* lines 220-221: __setitem__
SetItem(c, key, value, t) ==
    [k \in DOMAIN c \cup {key} |->
        IF k = key THEN [value |-> value, eol |-> Expiry(t, ttl)] ELSE c[k]]

\* lines 224-227: does __getitem__ return the value it read?
Hit(c, key, t) == key \in DOMAIN c /\ IsLive(c[key].eol, t)

\* line 229: self[key] = self.func(*key); when func raises nothing is stored
Miss_memoize_failure(c, key, outcome, t) ==
    SetItem(c, key, IF outcome = Raise THEN "error" ELSE outcome, t)
Miss(c, key, outcome, t) ==
    IF outcome = Raise THEN c ELSE SetItem(c, key, outcome, t)

\* time() advances, between calls and while a call is under way
Tick ==
    /\ now < MaxTime
    /\ now' = now + 1
    /\ UNCHANGED <<ttl, cache, calls, c_act, c_setting, c_hist>>

\* the history of the calls with one key, when func is invoked
Invoked(h) == [h EXCEPT !.invSince = IF h.first = -1 THEN @ ELSE @ + 1]

\* the history of the calls with one key, when a call ends with that outcome
Recorded(h, outcome, ret) == [h EXCEPT !.lastRet = ret, !.lastOutcome = outcome]

\* the history of the calls with one key, when a call reads time() as t
TimeRead(h, t) == [h EXCEPT !.late = @ \/ (h.first # -1 /\ t >= h.first + ttl)]

\* the call of caller c ends
Ends(c, outcome, ret) ==
    /\ c_act' = [c_act EXCEPT ![c] = NoAct]
    /\ c_hist' = [c_hist EXCEPT ![c_act[c].key] = Recorded(@, outcome, ret)]

\* another caller is in a call with the same key
Overlaps(c, key) ==
    \E o \in Callers \ {c} : c_act[o].pc # "idle" /\ c_act[o].key = key

\* lines 232-233, 224-225: caller c calls cached(*key); the entry is looked up
\* and read. With no entry, line 229 follows and func is invoked.
Lookup(c, key) ==
    /\ calls < MaxCalls
    /\ c_act[c].pc = "idle"
    /\ c = "B" => c_act["A"].pc # "idle"
    /\ calls' = calls + 1
    /\ c_act' = [c_act EXCEPT ![c] =
                    [pc |-> IF key \in DOMAIN cache THEN "looked" ELSE "in_func",
                     key |-> key,
                     seen |-> IF key \in DOMAIN cache THEN <<cache[key]>> ELSE <<>>,
                     seenAt |-> IF key \in DOMAIN cache THEN c_hist[key].storedAt ELSE -1,
                     fresh |-> None,
                     t |-> -1]]
    /\ c_hist' = [c_hist EXCEPT ![key] =
                    LET h == [@ EXCEPT !.prevRaised = (c_hist[key].lastOutcome = "raised"),
                                       !.lastOutcome = "pending",
                                       !.lastRet = None,
                                       !.serial = @ /\ ~Overlaps(c, key)]
                    IN  IF key \in DOMAIN cache THEN h ELSE Invoked(h)]
    /\ UNCHANGED <<ttl, now, cache, c_setting>>

\* lines 226-227: time() is read and compared with the eol that was read; the
\* value is returned, or line 229 follows and func is invoked
Check(c) ==
    /\ c_act[c].pc = "looked"
    /\ LET key == c_act[c].key
           seen == (key :> c_act[c].seen[1])
       IN  IF Hit(seen, key, now)
           THEN \* line 227: return value
                /\ c_act' = [c_act EXCEPT ![c] = NoAct]
                /\ c_hist' = [c_hist EXCEPT ![key] =
                                Recorded(TimeRead(@, now), "hit", seen[key].value)]
           ELSE /\ c_act' = [c_act EXCEPT ![c].pc = "in_func"]
                /\ c_hist' = [c_hist EXCEPT ![key] = Invoked(TimeRead(@, now))]
    /\ UNCHANGED <<ttl, now, cache, calls, c_setting>>

\* line 229: self.func(*key) returns value
FuncReturns(c, value) ==
    /\ c_act[c].pc = "in_func"
    /\ c_act' = [c_act EXCEPT ![c].pc = "store", ![c].fresh = value]
    /\ UNCHANGED <<ttl, now, cache, calls, c_setting, c_hist>>

\* line 229: self.func(*key) raises, and the call ends with the exception
FuncRaises(c) ==
    /\ c_act[c].pc = "in_func"
    /\ cache' = Miss(cache, c_act[c].key, Raise, now)
    /\ Ends(c, "raised", None)
    /\ UNCHANGED <<ttl, now, calls, c_setting>>

\* lines 229, 220-221: __setitem__ is entered with the value func returned
\* and reads time(); the entry is not yet stored
ReadTime(c) ==
    /\ c_act[c].pc = "store"
    /\ c_act' = [c_act EXCEPT ![c].pc = "timed", ![c].t = now]
    /\ UNCHANGED <<ttl, now, cache, calls, c_setting, c_hist>>

\* line 221: self.cache[key] = (value, the time() that was read + self.ttl)
StoreValue(c) ==
    /\ c_act[c].pc = "timed"
    /\ cache' = Miss(cache, c_act[c].key, c_act[c].fresh, c_act[c].t)
    /\ c_act' = [c_act EXCEPT ![c].pc = "stored", ![c].t = -1]
    /\ c_hist' = [c_hist EXCEPT ![c_act[c].key] =
                    [@ EXCEPT !.storedAt = c_act[c].t,
                              !.first = IF @ = -1 THEN c_act[c].t ELSE @,
                              !.firstVal = IF c_hist[c_act[c].key].first = -1
                                           THEN c_act[c].fresh ELSE @,
                              !.invSince = IF c_hist[c_act[c].key].first = -1
                                           THEN 1 ELSE @]]
    /\ UNCHANGED <<ttl, now, calls, c_setting>>

\* line 230: return self.cache[key][0]
ReturnValue(c) ==
    /\ c_act[c].pc = "stored"
    /\ Ends(c, "stored", cache[c_act[c].key].value)
    /\ UNCHANGED <<ttl, now, cache, calls, c_setting>>

\* lines 220-221: c[key] = value, made by a user of the object: __setitem__
\* is entered and reads time(); the entry is not yet stored
Assign(key, value) ==
    /\ calls < MaxCalls
    /\ calls' = calls + 1
    /\ c_setting' = c_setting (+) SetToBag({[key |-> key, value |-> value, t |-> now]})
    /\ c_hist' = [c_hist EXCEPT ![key].serial = FALSE]
    /\ UNCHANGED <<ttl, now, cache, c_act>>

\* line 221: self.cache[key] = (value, the time() that was read + self.ttl)
AssignStores(a) ==
    /\ BagIn(a, c_setting)
    /\ c_setting' = c_setting (-) SetToBag({a})
    /\ cache' = SetItem(cache, a.key, a.value, a.t)
    /\ c_hist' = [c_hist EXCEPT ![a.key].storedAt = a.t]
    /\ UNCHANGED <<ttl, now, calls, c_act>>

CacheNext ==
    \/ Tick
    \/ \E c \in Callers, key \in Keys : Lookup(c, key)
    \/ \E c \in Callers : Check(c)
    \/ \E c \in Callers, value \in CacheValues : FuncReturns(c, value)
    \/ \E c \in Callers : FuncRaises(c)
    \/ \E c \in Callers : ReadTime(c)
    \/ \E c \in Callers : StoreValue(c)
    \/ \E c \in Callers : ReturnValue(c)
    \/ \E key \in Keys, value \in CacheValues : Assign(key, value)
    \/ \E a \in BagToSet(c_setting) : AssignStores(a)

CacheUnchanged == UNCHANGED cacheVars

(***************************************************************************)
(* info_to_dict and its helpers                                            *)
(***************************************************************************)
\* byte value of a character (Python 2 str comparison is bytewise)
CharCode(c) ==
    CASE c = "," -> 44
      [] c = "1" -> 49
      [] c = "2" -> 50
      [] c = ":" -> 58
      [] c = ";" -> 59
      [] c = "=" -> 61
      [] c = "a" -> 97
      [] c = "b" -> 98

\* a < b for Python 2 strings
RECURSIVE StrLess(_, _)
StrLess(a, b) ==
    IF b = <<>> THEN FALSE
    ELSE IF a = <<>> THEN TRUE
    ELSE IF CharCode(Head(a)) # CharCode(Head(b)) THEN CharCode(Head(a)) < CharCode(Head(b))
    ELSE StrLess(Tail(a), Tail(b))

\* insertion of x into a sorted list, after the elements that are <= x
RECURSIVE Insert(_, _)
Insert(x, l) ==
    IF l = <<>> THEN <<x>>
    ELSE IF StrLess(x, Head(l)) THEN <<x>> \o l
    ELSE <<Head(l)>> \o Insert(x, Tail(l))

\* sorted(l)
RECURSIVE Sorted(_)
Sorted(l) == IF l = <<>> THEN <<>> ELSE Insert(Head(l), Sorted(Tail(l)))

\* sep.join(l)
RECURSIVE Join(_, _)
Join(l, sep) ==
    IF l = <<>> THEN <<>>
    ELSE IF Len(l) = 1 THEN Head(l)
    ELSE Head(l) \o sep \o Join(Tail(l), sep)

\* d in s
Contains(s, d) == \E i \in 1..Len(s) : s[i] = d

\* position of the first d in s (s contains d)
FirstIndex(s, d) == CHOOSE i \in 1..Len(s) : s[i] = d /\ \A j \in 1..(i - 1) : s[j] # d

\* lines 119-122: info_to_list, re.split(delimiter, value) for a one-character
\* literal delimiter: value is cut at every occurrence of the delimiter
RECURSIVE info_to_list(_, _)
info_to_list(value, delimiter) ==
    IF ~Contains(value, delimiter) THEN <<value>>
    ELSE LET i == FirstIndex(value, delimiter)
         IN  <<SubSeq(value, 1, i - 1)>>
                \o info_to_list(SubSeq(value, i + 1, Len(value)), delimiter)

\* lines 125-126: info_to_tuple
info_to_tuple_dropempty(value, delimiter) ==
    SelectSeq(info_to_list(value, delimiter), LAMBDA piece : piece # <<>>)
info_to_tuple(value, delimiter) == info_to_list(value, delimiter)

\* lines 51-61: the fields without "=" are appended to the previous kept field;
\* with no previous field the IndexError is swallowed and the field is lost
RECURSIVE MergeFields(_, _, _)
MergeFields(tmp, acc, delimiter) ==
    IF tmp = <<>> THEN acc
    ELSE LET v == Head(tmp)
         IN  IF ~Contains(v, "=")
             THEN IF acc = <<>>
                  THEN MergeFields(Tail(tmp), acc, delimiter)
                  ELSE MergeFields(Tail(tmp),
                                   [acc EXCEPT ![Len(acc)] = @ \o <<delimiter>> \o v],
                                   delimiter)
             ELSE MergeFields(Tail(tmp), Append(acc, v), delimiter)

\* lines 38-61: _value_list
ValueList_always_strict(value, delimiter, strict) == info_to_list(value, delimiter)
ValueList(value, delimiter, strict) ==
    IF strict THEN info_to_list(value, delimiter)
    ELSE MergeFields(info_to_list(value, delimiter), <<>>, delimiter)

\* line 66: itertools.groupby(stat_param, lambda x: x[0]): runs of consecutive
\* tuples with the same first component, in order
RECURSIVE GroupBy(_, _)
GroupBy(tuples, groups) ==
    IF tuples = <<>> THEN groups
    ELSE LET t == Head(tuples)
             n == Len(groups)
         IN  IF n > 0 /\ groups[n].key = t[1]
             THEN GroupBy(Tail(tuples),
                          [groups EXCEPT ![n].items = Append(@, t)])
             ELSE GroupBy(Tail(tuples),
                          Append(groups, [key |-> t[1], items |-> <<t>>]))

\* line 69: the value stored for one group
GroupValue_dedup(values) ==
    LET distinct == SelectSeq([i \in 1..Len(values) |->
                                 IF \E j \in 1..(i - 1) : values[j] = values[i]
                                 THEN <<"dup">> ELSE values[i]],
                              LAMBDA v : v # <<"dup">>)
    IN  IF Len(distinct) > 1 THEN Join(Sorted(distinct), <<",">>) ELSE distinct[1]
GroupValue(values) ==
    IF Len(values) > 1 THEN Join(Sorted(values), <<",">>) ELSE values[1]

\* lines 66-77: the groups are stored one after the other; a group holding a
\* tuple without a second component raises IndexError at line 68, which the
\* except clause swallows, so that the group stores nothing
RECURSIVE StoreGroups(_, _)
StoreGroups(groups, stat_dict) ==
    IF groups = <<>> THEN stat_dict
    ELSE LET g == Head(groups)
         IN  IF \E i \in 1..Len(g.items) : Len(g.items[i]) < 2
             THEN StoreGroups(Tail(groups), stat_dict)
             ELSE LET value == GroupValue([i \in 1..Len(g.items) |-> g.items[i][2]])
                  IN  StoreGroups(Tail(groups),
                                  [k \in DOMAIN stat_dict \cup {g.key} |->
                                      IF k = g.key THEN value ELSE stat_dict[k]])

\* lines 23-78: info_to_dict on a text
info_to_dict(value, delimiter, strict) ==
    IF value = <<>> THEN <<>>
    ELSE LET value_list == ValueList(value, delimiter, strict)
             stat_param == [i \in 1..Len(value_list) |->
                               info_to_tuple(value_list[i], "=")]
         IN  StoreGroups(GroupBy(stat_param, <<>>), <<>>)

\* the sites of info_to_dict whose exceptions an except clause swallows:
\* "merge" is lines 53-58 (_value_list[-1] on an empty list), "group" is
\* lines 67-77 (v[1] on a tuple without a second component)
Swallowed(site) == site \in {"merge", "group"}

\* lines 23-78: does an exception leave info_to_dict? The key function of
\* line 66, x[0], is evaluated outside every try block.
info_to_dict_raises(value, delimiter, strict) ==
    /\ value # <<>>
    /\ \/ /\ ~strict
          /\ ~Swallowed("merge")
          /\ ~Contains(info_to_list(value, delimiter)[1], "=")
       \/ LET value_list == ValueList(value, delimiter, strict)
              stat_param == [i \in 1..Len(value_list) |->
                                info_to_tuple(value_list[i], "=")]
          IN  \/ \E i \in 1..Len(stat_param) : Len(stat_param[i]) = 0
              \/ /\ ~Swallowed("group")
                 /\ \E i \in 1..Len(stat_param) : Len(stat_param[i]) < 2

\* lines 105-108: the record of one section is stored under the value of
\* every name of keyname that it contains, in the order of keyname
RECURSIVE StoreSection(_, _, _)
StoreSection(names, values, value_dict) ==
    IF names = <<>> THEN value_dict
    ELSE LET _k == Head(names)
         IN  IF _k \notin DOMAIN values
             THEN StoreSection(Tail(names), values, value_dict)
             ELSE StoreSection(Tail(names), values,
                               [k \in DOMAIN value_dict \cup {values[_k]} |->
                                   IF k = values[_k] THEN values ELSE value_dict[k]])

\* lines 100-108: the loop over the sections
RECURSIVE StoreSections(_, _, _, _, _)
StoreSections(value_list, names, delimiter2, strict, value_dict) ==
    IF value_list = <<>> THEN value_dict
    ELSE LET values == info_to_dict(Head(value_list), delimiter2, strict)
         IN  StoreSections(Tail(value_list), names, delimiter2, strict,
                           IF values = <<>> THEN value_dict
                           ELSE StoreSection(names, values, value_dict))

\* lines 81-109: info_to_dict_multi_level on a text. keyname is a str (made
\* a one-element list at lines 92-93), a list, or something else (lines 97-98)
info_to_dict_multi_level(value, keyname, delimiter1, delimiter2, strict) ==
    IF value = <<>> THEN <<>>
    ELSE IF keyname.kind \notin {"str", "list"} THEN <<>>
    ELSE StoreSections(info_to_list(value, delimiter1), keyname.names,
                       delimiter2, strict, <<>>)

\* lines 81-109: does an exception leave info_to_dict_multi_level?
info_to_dict_multi_level_raises(value, keyname, delimiter1, delimiter2, strict) ==
    /\ value # <<>>
    /\ keyname.kind \in {"str", "list"}
    /\ LET value_list == info_to_list(value, delimiter1)
       IN  \E i \in 1..Len(value_list) :
              info_to_dict_raises(value_list[i], delimiter2, strict)

\* field-strings the parsed texts are built from
FieldSamples ==
    { <<"a", "=", "1">>, <<"a", "=", "2">>, <<"b", "=", "1">>,
      <<"a", "=", "1", "=", "2">>, <<"a", "=">>, <<"=", "1">>,
      <<"a">>, <<"1">>, <<>> }

Delimiters == {";", ":"}
OtherDelimiter(d) == IF d = ";" THEN ":" ELSE ";"

\* the fields of the sections the sectioned texts are built from
SectionSamples ==
    { << <<"a", "=", "1">>, <<"b", "=", "1">> >>,
      << <<"a", "=", "2">>, <<"b", "=", "2">> >>,
      << <<"b", "=", "2">>, <<"a", "=", "1">> >>,
      << <<"a", "=", "1">> >>,
      << <<"b", "=", "1">> >>,
      << <<"1">>, <<"a", "=", "2">> >>,
      << <<"1">> >> }

\* the text of the dc config example of lines 45-49, shortened as in the
\* comment: "dc-name=X:nodes=2000:10:3"
DcText ==
    <<"d", "c", "-", "n", "a", "m", "e", "=", "X", ":",
      "n", "o", "d", "e", "s", "=", "2", "0", "0", "0", ":", "1", "0", ":", "3">>

\* the texts handed to the parsers with field delimiter d: at most MaxFields
\* field-strings, or at most MaxSections sections of fields, or the example
Texts(d) ==
    {Join(fields, <<d>>) : fields \in SeqsUpTo(FieldSamples, MaxFields)}
    \cup {Join([i \in 1..Len(secs) |-> Join(secs[i], <<OtherDelimiter(d)>>)], <<d>>) :
             secs \in SeqsUpTo(SectionSamples, MaxSections)}
    \cup {DcText}

\* the keyname arguments: a str, lists, and a tuple (neither str nor list)
KeyNames ==
    { [kind |-> "str", names |-> << <<"a">> >>],
      [kind |-> "list", names |-> << <<"a">>, <<"b">> >>],
      [kind |-> "list", names |-> << <<"b">>, <<"a">> >>],
      [kind |-> "list", names |-> <<>>],
      [kind |-> "tuple", names |-> << <<"a">> >>] }

NoKeyName == [kind |-> "none", names |-> <<>>]

ParserIdle ==
    /\ p_value = <<>>
    /\ p_delim = ";"
    /\ p_strict = TRUE
    /\ p_pc = "idle"
    /\ p_out = <<>>
    /\ p_exc = "none"
    /\ m_keyname = NoKeyName
    /\ m_out = <<>>

\* the caller's arguments
ParserInit ==
    /\ p_delim \in Delimiters
    /\ p_strict \in BOOLEAN
    /\ p_value \in Texts(p_delim)
    /\ p_pc = "ready"
    /\ p_out = <<>>
    /\ p_exc = "none"
    /\ m_keyname = NoKeyName
    /\ m_out = <<>>

\* the call info_to_dict(value, delimiter, ignore_field_without_key_value_delimiter)
InfoToDict ==
    /\ p_pc = "ready"
    /\ IF info_to_dict_raises(p_value, p_delim, p_strict)
       THEN p_exc' = "IndexError" /\ p_out' = <<>>
       ELSE p_exc' = "none" /\ p_out' = info_to_dict(p_value, p_delim, p_strict)
    /\ p_pc' = "done"
    /\ UNCHANGED <<p_value, p_delim, p_strict, m_keyname, m_out>>

\* the call info_to_dict_multi_level(value, keyname, delimiter1, delimiter2,
\* ignore_field_without_key_value_delimiter), the sections being separated by
\* p_delim and their fields by the other delimiter
InfoToDictMultiLevel(keyname) ==
    /\ p_pc = "ready"
    /\ m_keyname' = keyname
    /\ IF info_to_dict_multi_level_raises(p_value, keyname, p_delim,
                                          OtherDelimiter(p_delim), p_strict)
       THEN p_exc' = "IndexError" /\ m_out' = <<>>
       ELSE /\ p_exc' = "none"
            /\ m_out' = info_to_dict_multi_level(p_value, keyname, p_delim,
                                                 OtherDelimiter(p_delim), p_strict)
    /\ p_pc' = "done_multi"
    /\ UNCHANGED <<p_value, p_delim, p_strict, p_out>>

ParserNext ==
    \/ InfoToDict
    \/ \E keyname \in KeyNames : InfoToDictMultiLevel(keyname)

ParserUnchanged == UNCHANGED parserVars

(***************************************************************************)
(* parse_peers_string, with its default delimiter and brackets             *)
(***************************************************************************)
\* the characters str.strip() removes: ' ', '\t', '\n', '\r', '\x0c' and '\x0b';
\* VT is the character '\x0b'
VT == "VT"
IsSpace(c) == c \in {" ", "\t", "\n", "\r", "\f", VT}

\* s.strip()
RECURSIVE LStrip(_)
LStrip(s) == IF s # <<>> /\ IsSpace(Head(s)) THEN LStrip(Tail(s)) ELSE s
RECURSIVE RStrip(_)
RStrip(s) ==
    IF s # <<>> /\ IsSpace(s[Len(s)]) THEN RStrip(SubSeq(s, 1, Len(s) - 1)) ELSE s
StripWs(s) == RStrip(LStrip(s))

\* lines 152-153: the first and the last character are removed when they are
\* an opening and a closing bracket
Unwrap(s) ==
    IF s[1] = "[" /\ s[Len(s)] = "]" THEN SubSeq(s, 2, Len(s) - 1) ELSE s

\* lines 161-164: a delimiter ends the current element when no bracket is open
Separates_always(b_stack) == TRUE
Separates(b_stack) == ~(Len(b_stack) > 0)

\* lines 160-176: the loop over the characters from position idx on; st holds
\* o, b_stack and current_str. b_stack.pop() on an empty list raises
\* IndexError, which nothing catches.
RECURSIVE PeersLoop(_, _, _)
PeersLoop(s, idx, st) ==
    IF idx > Len(s) THEN [exc |-> "none", st |-> st]
    ELSE LET i == s[idx]
         IN  IF i = ","
             THEN IF ~Separates(st.b_stack)
                  THEN PeersLoop(s, idx + 1, [st EXCEPT !.current_str = Append(@, i)])
                  ELSE PeersLoop(s, idx + 1,
                                 [st EXCEPT !.o = Append(@, StripWs(st.current_str)),
                                            !.current_str = <<>>])
             ELSE IF i = "["
             THEN PeersLoop(s, idx + 1, [st EXCEPT !.current_str = Append(@, i),
                                                   !.b_stack = Append(@, i)])
             ELSE IF i = "]"
             THEN IF st.b_stack = <<>>
                  THEN [exc |-> "IndexError", st |-> st]
                  ELSE PeersLoop(s, idx + 1,
                                 [st EXCEPT !.current_str = Append(@, i),
                                            !.b_stack = SubSeq(@, 1, Len(@) - 1)])
             ELSE PeersLoop(s, idx + 1, [st EXCEPT !.current_str = Append(@, i)])

\* lines 156-179: the loop and the last element, on the text the loop is given
PeersBody(s) ==
    LET r == PeersLoop(s, 1, [o |-> <<>>, b_stack |-> <<>>, current_str |-> <<>>])
    IN  IF r.exc # "none" THEN [exc |-> r.exc, out |-> <<>>]
        ELSE [exc |-> "none",
              out |-> IF r.st.current_str # <<>>
                      THEN Append(r.st.o, StripWs(r.st.current_str))
                      ELSE r.st.o]

\* lines 145-179: parse_peers_string(s); the result is the list, or the
\* exception that leaves the call
parse_peers_string(s) ==
    IF s = <<>> THEN [exc |-> "none", out |-> <<>>]
    ELSE IF StripWs(s) = <<>> THEN [exc |-> "none", out |-> <<>>]
    ELSE IF Unwrap(StripWs(s)) = <<>> THEN [exc |-> "none", out |-> <<>>]
    ELSE PeersBody(Unwrap(StripWs(s)))

PeerChars == {"a", ",", "[", "]", " "}

\* the examples '[a,b],c', '[a,[b,c]]' and '[a,b],[c,d]'
Peers_ab_c == <<"[", "a", ",", "b", "]", ",", "c">>
Peers_a_bc == <<"[", "a", ",", "[", "b", ",", "c", "]", "]">>
Peers_ab_cd == <<"[", "a", ",", "b", "]", ",", "[", "c", ",", "d", "]">>

PeerTexts == SeqsUpTo(PeerChars, MaxPeerLen) \cup {Peers_ab_c, Peers_a_bc, Peers_ab_cd}

PeersIdle ==
    /\ q_s = <<>>
    /\ q_pc = "idle"
    /\ q_out = <<>>
    /\ q_exc = "none"

PeersInit ==
    /\ q_s \in PeerTexts
    /\ q_pc = "ready"
    /\ q_out = <<>>
    /\ q_exc = "none"

\* the call parse_peers_string(s)
ParsePeers ==
    /\ q_pc = "ready"
    /\ q_out' = parse_peers_string(q_s).out
    /\ q_exc' = parse_peers_string(q_s).exc
    /\ q_pc' = "done"
    /\ UNCHANGED q_s

PeersNext == ParsePeers

PeersUnchanged == UNCHANGED peersVars

(***************************************************************************)
(* CliView.group_output                                                    *)
(***************************************************************************)
\* the character '\033'; a text is a sequence of characters, this one included
ESC == "ESC"

\* lines 1145-1150: the inner loop, which extends group up to the first 'm' or
\* to the end of the text
RECURSIVE EscapeGroup_drop(_, _, _)
EscapeGroup_drop(output, i, group) ==
    IF ~(i <= Len(output)) THEN [group |-> <<ESC>>, i |-> i]
    ELSE IF output[i] = "m" THEN [group |-> Append(group, output[i]), i |-> i + 1]
    ELSE EscapeGroup_drop(output, i + 1, Append(group, output[i]))
RECURSIVE EscapeGroup(_, _, _)
EscapeGroup(output, i, group) ==
    IF ~(i <= Len(output)) THEN [group |-> group, i |-> i]
    ELSE IF output[i] = "m" THEN [group |-> Append(group, output[i]), i |-> i + 1]
    ELSE EscapeGroup(output, i + 1, Append(group, output[i]))

\* lines 1142-1156: one pass of the outer loop at index i, which yields one
\* group and leaves the index after it
NextGroup_single(output, i) == [group |-> <<output[i]>>, i |-> i + 1]
NextGroup(output, i) ==
    IF output[i] = ESC
    THEN EscapeGroup(output, i + 1, <<output[i]>>)
    ELSE [group |-> <<output[i]>>, i |-> i + 1]

\* lines 1139-1157: all the groups group_output yields from index i on
RECURSIVE GroupsFrom(_, _)
GroupsFrom(output, i) ==
    IF ~(i <= Len(output)) THEN <<>>
    ELSE <<NextGroup(output, i).group>> \o GroupsFrom(output, NextGroup(output, i).i)
group_output(output) == GroupsFrom(output, 1)

OutputChars == {ESC, "m", "a", "b", "\n", " "}

GroupIdle ==
    /\ g_output = <<>>
    /\ g_i = 0
    /\ g_groups = <<>>
    /\ g_pc = "idle"

GroupInit ==
    /\ g_output \in SeqsUpTo(OutputChars, MaxOutputLen)
    /\ g_i = 1
    /\ g_groups = <<>>
    /\ g_pc = "running"

\* the consumer asks for the next group and the generator yields one
YieldGroup ==
    /\ g_pc = "running"
    /\ g_i <= Len(g_output)
    /\ g_groups' = Append(g_groups, NextGroup(g_output, g_i).group)
    /\ g_i' = NextGroup(g_output, g_i).i
    /\ UNCHANGED <<g_output, g_pc>>

\* line 1141 fails: the generator returns
Exhausted ==
    /\ g_pc = "running"
    /\ ~(g_i <= Len(g_output))
    /\ g_pc' = "done"
    /\ UNCHANGED <<g_output, g_i, g_groups>>

GroupNext == YieldGroup \/ Exhausted

GroupUnchanged == UNCHANGED groupVars

(***************************************************************************)
(* CliView.peekable and the diff highlighting of CliView.watch             *)
(***************************************************************************)
\* terminal.inverse(), terminal.uninverse() and terminal.reset(): the escape
\* texts that open and close a highlight, each kept as one mark of its own
Inverse == <<"INVERSE">>
Uninverse == <<"UNINVERSE">>
Reset == <<"RESET">>

\* lines 1208-1209: the generator peekable(next_peeked, group_output(output))
\* before its first step. remaining holds the groups not yet drawn, val the
\* group drawn last, at says where the generator is suspended: before the for
\* statement of line 1161 ("for") or inside the while of line 1162 ("while").
NewPeekable(output) ==
    [remaining |-> group_output(output), val |-> <<>>, peeked |-> <<>>,
     at |-> "for", ended |-> FALSE]

\* lines 1162-1164: the while loop yields the groups pushed back, then val
Resume(gen) ==
    IF gen.peeked # <<>>
    THEN [ok |-> TRUE, group |-> Head(gen.peeked),
          gen |-> [gen EXCEPT !.peeked = Tail(@), !.at = "while"]]
    ELSE [ok |-> TRUE, group |-> gen.val, gen |-> [gen EXCEPT !.at = "for"]]

\* lines 1159-1164: one next() on the generator. When group_output has no
\* further group the generator ends, whatever next_peeked still holds.
PeekableNext(gen) ==
    IF gen.ended THEN [ok |-> FALSE, group |-> <<>>, gen |-> gen]
    ELSE IF gen.at = "while" THEN Resume(gen)
    ELSE IF gen.remaining = <<>>
    THEN [ok |-> FALSE, group |-> <<>>, gen |-> [gen EXCEPT !.ended = TRUE]]
    ELSE Resume([gen EXCEPT !.val = Head(gen.remaining), !.remaining = Tail(@)])

\* '\033' in group
HasEsc(group) == \E k \in 1..Len(group) : group[k] = ESC

\* lines 1225-1227, 1229-1231, 1245-1247: close the highlight if one is open
CloseHighlight(st) ==
    IF st.highlight
    THEN [st EXCEPT !.result = @ \o Uninverse, !.highlight = FALSE]
    ELSE st

\* lines 1233-1235, 1249-1251: open a highlight if none is open
OpenHighlight_always(st) ==
    [st EXCEPT !.result = @ \o Inverse, !.highlight = TRUE]
OpenHighlight(st) ==
    IF ~st.highlight
    THEN [st EXCEPT !.result = @ \o Inverse, !.highlight = TRUE]
    ELSE st

\* line 1228: the group of the previous frame and the group of this one agree
SameGroup_never(prev_group, next_group) == FALSE
SameGroup(prev_group, next_group) == prev_group = next_group

\* lines 1216-1241: the inner loop for one prev_group; the outcome is the state
\* in which the loop is left, by break or because next_iterator has ended
RECURSIVE InnerLoop(_, _)
InnerLoop(prev_group, st) ==
    LET n == PeekableNext(st.gen)
        next_group == n.group
        st1 == [st EXCEPT !.gen = n.gen]
    IN  IF ~n.ok THEN st1
        ELSE IF HasEsc(next_group)
        THEN InnerLoop(prev_group, [st1 EXCEPT !.result = @ \o next_group])
        ELSE IF next_group = <<"\n">> /\ prev_group # <<"\n">>
        THEN [st1 EXCEPT !.gen.peeked = Append(@, next_group)]
        ELSE LET st2 == IF next_group = <<"\n">> THEN CloseHighlight(st1)
                        ELSE IF SameGroup(prev_group, next_group) THEN CloseHighlight(st1)
                        ELSE OpenHighlight(st1)
                 st3 == [st2 EXCEPT !.result = @ \o next_group]
             IN  IF prev_group = <<"\n">> /\ next_group # <<"\n">>
                 THEN InnerLoop(prev_group, st3)
                 ELSE st3

\* lines 1211-1241: the loop over the groups of the previous frame
RECURSIVE OuterLoop(_, _)
OuterLoop(prev_groups, st) ==
    IF prev_groups = <<>> THEN st
    ELSE IF HasEsc(Head(prev_groups)) THEN OuterLoop(Tail(prev_groups), st)
    ELSE OuterLoop(Tail(prev_groups), InnerLoop(Head(prev_groups), st))

\* lines 1243-1253: the loop over what next_iterator still yields
RECURSIVE TailLoop(_)
TailLoop(st) ==
    LET n == PeekableNext(st.gen)
        next_group == n.group
        st1 == [st EXCEPT !.gen = n.gen]
    IN  IF ~n.ok THEN st1
        ELSE LET st2 == IF next_group = <<" ">> \/ next_group = <<"\n">>
                        THEN CloseHighlight(st1)
                        ELSE OpenHighlight(st1)
             IN  TailLoop([st2 EXCEPT !.result = @ \o next_group])

\* lines 1205-1259: the highlighted text for a previous frame that is not empty
DiffHighlight(previous, output) ==
    LET st0 == [gen |-> NewPeekable(output), highlight |-> FALSE, result |-> <<>>]
        st == TailLoop(OuterLoop(group_output(previous), st0))
    IN  IF st.highlight THEN st.result \o Reset ELSE st.result

\* lines 1204-1262 with diff_highlight set: an empty previous frame, or none,
\* leaves the output as it is
DiffResult(previous, output) ==
    IF previous # <<>> THEN DiffHighlight(previous, output) ELSE output

\* the example frames 'abc' and 'abd'
Frame_abc == <<"a", "b", "c">>
Frame_abd == <<"a", "b", "d">>

DiffIdle ==
    /\ d_previous = <<>>
    /\ d_output = <<>>
    /\ d_result = <<>>
    /\ d_pc = "idle"

DiffInit ==
    /\ \/ /\ d_previous \in SeqsUpTo(OutputChars, MaxPreviousLen)
          /\ d_output \in SeqsUpTo(OutputChars, MaxFrameLen)
       \/ /\ d_previous \in SeqsUpTo(OutputChars, MaxFrameLen)
          /\ d_output = d_previous
       \/ /\ d_previous \in {Frame_abc, Frame_abd}
          /\ d_output \in {Frame_abc, Frame_abd}
    /\ d_result = <<>>
    /\ d_pc = "ready"

\* lines 1204-1262: the result of one iteration is computed
Diff ==
    /\ d_pc = "ready"
    /\ d_result' = DiffResult(d_previous, d_output)
    /\ d_pc' = "done"
    /\ UNCHANGED <<d_previous, d_output>>

DiffNext == Diff

DiffUnchanged == UNCHANGED diffVars

(***************************************************************************)
(* CliView.watch                                                           *)
(***************************************************************************)
\* the words int() accepts, in the order of their values from 0 on
IntWords == <<"0", "1", "2", "3", "4", "5", "6">>
IsInt(w) == \E k \in 1..Len(IntWords) : IntWords[k] = w
IntOf(w) == (CHOOSE k \in 1..Len(IntWords) : IntWords[k] = w) - 1

\* the words float() accepts and their values in tenths
IsFloat(w) == IsInt(w) \/ w = "0.5"
FloatOf(w) == IF w = "0.5" THEN 5 ELSE 10 * IntOf(w)

\* lines 1168-1182: sleep and num_iterations are taken from the head of line.
\* line[0] on an empty list, float() and int() on a word that is no number
\* raise, and the bare except clauses pass.
ParseArgs(line) ==
    IF line = <<>> \/ ~IsFloat(Head(line))
    THEN [sleep |-> 20, num_iterations |-> 0, line |-> line]
    ELSE IF Tail(line) = <<>> \/ ~IsInt(Head(Tail(line)))
    THEN [sleep |-> FloatOf(Head(line)), num_iterations |-> 0, line |-> Tail(line)]
    ELSE [sleep |-> FloatOf(Head(line)), num_iterations |-> IntOf(Head(Tail(line))),
          line |-> Tail(Tail(line))]

\* line 1184: "".join(line[0:2]) == "--no-diff"
NoDiff(line) ==
    (IF Len(line) = 0 THEN ""
     ELSE IF Len(line) = 1 THEN line[1]
     ELSE line[1] \o line[2]) = "--no-diff"

\* line 1283: the exceptions the except clause names
Caught_keyboard == {"KeyboardInterrupt"}
Caught_all == {"KeyboardInterrupt", "SystemExit", "Failure"}
Caught == {"KeyboardInterrupt", "SystemExit"}

\* line 1286: the finally clause sets sys.stdout
Finally_skip(stdout) == stdout
Finally(stdout) == "real_stdout"

\* lines 1204, 1259-1263: the text printed for output
WatchResult(previous, diff_highlight, output) ==
    IF (previous # <<>> /\ previous[1] # <<>>) /\ diff_highlight
    THEN DiffHighlight(previous[1], output)
    ELSE output

\* lines 1260 and 1263: previous = output
NewPrevious_result(output, text) == text
NewPrevious(output, text) == output

\* line 1277: the number of iterations is set and reached
BudgetReached_late(num_iterations, count) == num_iterations # 0 /\ num_iterations < count
BudgetReached(num_iterations, count) == num_iterations # 0 /\ num_iterations <= count

\* lines 1267-1275: the banner and the result, as printed on real_stdout
Banner(command, sleep, count, num_iterations) ==
    [kind |-> "banner", command |-> command, sleep |-> sleep, count |-> count,
     of |-> num_iterations, text |-> <<>>]
Body(text) ==
    [kind |-> "body", command |-> <<>>, sleep |-> 0, count |-> 0, of |-> 0,
     text |-> text]
\* line 1287: print '' in the finally clause
BlankLine ==
    [kind |-> "blank", command |-> <<>>, sleep |-> 0, count |-> 0, of |-> 0,
     text |-> <<>>]

\* the outputs ctrl.execute leaves in mystdout
WatchFrames == {<<>>, <<"a">>, <<"b">>, <<"a", "b">>, <<"a", "\n">>}

\* what ctrl.execute can raise, and what can arrive during time.sleep
ExecuteExceptions == {"KeyboardInterrupt", "SystemExit", "Failure"}
Interrupts == {"KeyboardInterrupt", "SystemExit"}

WatchLines ==
    {<<>>, <<"info">>, <<"1", "info">>, <<"0.5", "0", "info">>,
     <<"--no", "-diff", "info">>, <<"2", "2", "--no", "-diff", "info">>,
     <<"--no-diff">>}
    \cup {<<"1", IntWords[n + 1], "info">> : n \in 1..MaxCount}

WatchIdle ==
    /\ w_line = <<>>
    /\ w_color_enabled = FALSE
    /\ w_sleep = 0
    /\ w_num_iterations = 0
    /\ w_diff_highlight = FALSE
    /\ w_stdout = "real_stdout"
    /\ w_previous = <<>>
    /\ w_count = 0
    /\ w_pc = "idle"
    /\ w_exc = "none"
    /\ w_raised = "none"
    /\ w_outputs = <<>>
    /\ w_printed = <<>>
    /\ w_executes = 0
    /\ w_sleeps = 0

WatchInit ==
    /\ w_line \in WatchLines
    /\ w_color_enabled \in BOOLEAN
    /\ w_sleep = 20
    /\ w_num_iterations = 0
    /\ w_diff_highlight = TRUE
    /\ w_stdout = "real_stdout"
    /\ w_previous = <<>>
    /\ w_count = 0
    /\ w_pc = "start"
    /\ w_exc = "none"
    /\ w_raised = "none"
    /\ w_outputs = <<>>
    /\ w_printed = <<>>
    /\ w_executes = 0
    /\ w_sleeps = 0

\* lines 1168-1196: the arguments are read, sys.stdout is replaced by mystdout
\* and the loop is entered. When "--no-diff" is the one word left of line, the
\* second line.pop(0) raises IndexError before the try statement is reached.
WatchStart ==
    /\ w_pc = "start"
    /\ LET args == ParseArgs(w_line)
       IN  IF NoDiff(args.line) /\ Len(args.line) < 2
           THEN /\ w_pc' = "raised"
                /\ w_exc' = "IndexError"
                /\ w_raised' = "IndexError"
                /\ w_line' = <<>>
                /\ w_sleep' = args.sleep
                /\ w_num_iterations' = args.num_iterations
                /\ w_diff_highlight' = FALSE
                /\ UNCHANGED <<w_stdout, w_count>>
           ELSE /\ w_pc' = "execute"
                /\ w_line' = IF NoDiff(args.line) THEN Tail(Tail(args.line)) ELSE args.line
                /\ w_sleep' = args.sleep
                /\ w_num_iterations' = args.num_iterations
                /\ w_diff_highlight' = (~NoDiff(args.line) /\ w_color_enabled)
                /\ w_stdout' = "mystdout"
                /\ w_count' = 1
                /\ UNCHANGED <<w_exc, w_raised>>
    /\ w_previous' = <<>>
    /\ UNCHANGED <<w_color_enabled, w_outputs, w_printed, w_executes, w_sleeps>>

\* lines 1283-1287: an exception raised inside the try statement meets the
\* except clause and the finally clause
Unwind(exc) ==
    /\ w_raised' = exc
    /\ IF exc \in Caught
       THEN w_pc' = "returned" /\ w_exc' = "none"
       ELSE w_pc' = "raised" /\ w_exc' = exc
    /\ w_stdout' = Finally(w_stdout)
    /\ w_printed' = Append(w_printed, BlankLine)

\* lines 1198-1280: ctrl.execute returns having written output; the result is
\* computed and printed with its banner, and the loop is left when the number
\* of iterations is reached, or count is raised and time.sleep is called
Execute(output) ==
    /\ w_pc = "execute"
    /\ w_count <= MaxCount
    /\ LET text == WatchResult(w_previous, w_diff_highlight, output)
           shown == w_printed \o <<Banner(w_line, w_sleep, w_count, w_num_iterations),
                                   Body(text)>>
       IN  /\ w_previous' = <<NewPrevious(output, text)>>
           /\ IF BudgetReached(w_num_iterations, w_count)
              THEN /\ w_pc' = "returned"
                   /\ w_stdout' = Finally(w_stdout)
                   /\ w_printed' = Append(shown, BlankLine)
                   /\ UNCHANGED <<w_count, w_sleeps>>
              ELSE /\ w_pc' = "sleep"
                   /\ w_count' = w_count + 1
                   /\ w_sleeps' = w_sleeps + 1
                   /\ w_printed' = shown
                   /\ UNCHANGED w_stdout
    /\ w_outputs' = Append(w_outputs, output)
    /\ w_executes' = w_executes + 1
    /\ UNCHANGED <<w_line, w_color_enabled, w_sleep, w_num_iterations, w_diff_highlight,
                   w_exc, w_raised>>

\* line 1199: ctrl.execute raises
ExecuteRaises(exc) ==
    /\ w_pc = "execute"
    /\ w_executes' = w_executes + 1
    /\ Unwind(exc)
    /\ UNCHANGED <<w_line, w_color_enabled, w_sleep, w_num_iterations, w_diff_highlight,
                   w_previous, w_count, w_outputs, w_sleeps>>

\* line 1281: time.sleep returns
SleepReturns ==
    /\ w_pc = "sleep"
    /\ w_pc' = "execute"
    /\ UNCHANGED <<w_line, w_color_enabled, w_sleep, w_num_iterations, w_diff_highlight,
                   w_stdout, w_previous, w_count, w_exc, w_raised, w_outputs, w_printed,
                   w_executes, w_sleeps>>

\* line 1281: the interrupt arrives while time.sleep waits
SleepRaises(exc) ==
    /\ w_pc = "sleep"
    /\ Unwind(exc)
    /\ UNCHANGED <<w_line, w_color_enabled, w_sleep, w_num_iterations, w_diff_highlight,
                   w_previous, w_count, w_outputs, w_executes, w_sleeps>>

WatchNext ==
    \/ WatchStart
    \/ \E output \in WatchFrames : Execute(output)
    \/ \E exc \in ExecuteExceptions : ExecuteRaises(exc)
    \/ SleepReturns
    \/ \E exc \in Interrupts : SleepRaises(exc)

WatchUnchanged == UNCHANGED watchVars

(***************************************************************************)
(* Specifications                                                          *)
(***************************************************************************)
InitFanout ==
    /\ FanoutInit
    /\ CacheIdle /\ ParserIdle /\ PeersIdle /\ GroupIdle /\ DiffIdle /\ WatchIdle
NextFanout ==
    /\ FanoutNext
    /\ CacheUnchanged /\ ParserUnchanged /\ PeersUnchanged /\ GroupUnchanged
    /\ DiffUnchanged /\ WatchUnchanged
SpecFanout == InitFanout /\ [][NextFanout]_vars

InitCache ==
    /\ CacheInit
    /\ FanoutIdle /\ ParserIdle /\ PeersIdle /\ GroupIdle /\ DiffIdle /\ WatchIdle
NextCache ==
    /\ CacheNext
    /\ FanoutUnchanged /\ ParserUnchanged /\ PeersUnchanged /\ GroupUnchanged
    /\ DiffUnchanged /\ WatchUnchanged
SpecCache == InitCache /\ [][NextCache]_vars

InitParser ==
    /\ ParserInit
    /\ FanoutIdle /\ CacheIdle /\ PeersIdle /\ GroupIdle /\ DiffIdle /\ WatchIdle
NextParser ==
    /\ ParserNext
    /\ FanoutUnchanged /\ CacheUnchanged /\ PeersUnchanged /\ GroupUnchanged
    /\ DiffUnchanged /\ WatchUnchanged
SpecParser == InitParser /\ [][NextParser]_vars

InitPeers ==
    /\ PeersInit
    /\ FanoutIdle /\ CacheIdle /\ ParserIdle /\ GroupIdle /\ DiffIdle /\ WatchIdle
NextPeers ==
    /\ PeersNext
    /\ FanoutUnchanged /\ CacheUnchanged /\ ParserUnchanged /\ GroupUnchanged
    /\ DiffUnchanged /\ WatchUnchanged
SpecPeers == InitPeers /\ [][NextPeers]_vars

\* the consumer of the generator is a for loop, which keeps asking for the next
\* group until the generator returns
InitGroup ==
    /\ GroupInit
    /\ FanoutIdle /\ CacheIdle /\ ParserIdle /\ PeersIdle /\ DiffIdle /\ WatchIdle
NextGroupStep ==
    /\ GroupNext
    /\ FanoutUnchanged /\ CacheUnchanged /\ ParserUnchanged /\ PeersUnchanged
    /\ DiffUnchanged /\ WatchUnchanged
SpecGroup == InitGroup /\ [][NextGroupStep]_vars /\ WF_vars(NextGroupStep)

InitDiff ==
    /\ DiffInit
    /\ FanoutIdle /\ CacheIdle /\ ParserIdle /\ PeersIdle /\ GroupIdle /\ WatchIdle
NextDiff ==
    /\ DiffNext
    /\ FanoutUnchanged /\ CacheUnchanged /\ ParserUnchanged /\ PeersUnchanged
    /\ GroupUnchanged /\ WatchUnchanged
SpecDiff == InitDiff /\ [][NextDiff]_vars

\* watch is sequential code: a step that can be taken is taken
InitWatch ==
    /\ WatchInit
    /\ FanoutIdle /\ CacheIdle /\ ParserIdle /\ PeersIdle /\ GroupIdle /\ DiffIdle
NextWatch ==
    /\ WatchNext
    /\ FanoutUnchanged /\ CacheUnchanged /\ ParserUnchanged /\ PeersUnchanged
    /\ GroupUnchanged /\ DiffUnchanged
SpecWatch == InitWatch /\ [][NextWatch]_vars /\ WF_vars(NextWatch)

(***************************************************************************)
(* Properties of concurrent_map (checked under SpecFanout)                 *)
(***************************************************************************)
\* every value the operation can return normally
SuccessValues == UNION {Outcomes(n) \ {Raise} : n \in NodeIds}

AllFinished == \A i \in 1..N : threads[i] \in {"done", "dead"}

\* C1: when the operation raises for some nodes and returns for the others,
\* the returned result has one entry per node, the entries of the other nodes
\* hold their operation's result, and the entry of a failing node is a failure
\* value distinguishable from every value the operation can return.
C1_FailureCaptured ==
    mainpc = "returned" =>
        /\ Len(result) = Len(data)
        /\ \A i \in 1..N :
              IF func[data[i]] = Raise
              THEN result[i] \notin SuccessValues
              ELSE result[i] = func[data[i]]

\* C2: whatever the interleaving of the workers, a slot never holds a value
\* of another input, and the returned result has exactly N entries, entry i
\* being operation(input i) for every i whose operation returned normally.
C2_OneEntryPerInput ==
    /\ \A i \in 1..Len(result) :
          result[i] # None => func[data[i]] # Raise /\ result[i] = func[data[i]]
    /\ mainpc = "returned" =>
          /\ Len(result) = Len(data)
          /\ \A i \in 1..N : func[data[i]] # Raise => result[i] = func[data[i]]

C2_Witness ==
    /\ mainpc = "returned"
    /\ N = 3
    /\ data[1] # data[2]
    /\ result[1] = RetValue(data[1])
    /\ result[2] = RetValue(data[2])
    /\ func[data[3]] = Raise

\* C3: when concurrent_map returns every worker has finished, every value a
\* worker obtained is in its slot, and no step of a worker (hence no write of
\* a result slot) can follow.
C3_ReturnsAfterAllWorkers ==
    mainpc = "returned" =>
        /\ AllFinished
        /\ \A i \in 1..N : threads[i] = "done" => result[i] = tret[i]
        /\ ~ENABLED (\E i \in 1..N : Evaluate(i) \/ Write(i))

C3_Witness ==
    /\ mainpc = "returned"
    /\ N = 3
    /\ \E i, j \in 1..N : threads[i] = "done" /\ threads[j] = "dead"

(***************************************************************************)
(* Properties of cached (checked under SpecCache)                          *)
(***************************************************************************)
\* C4: for a key whose calls came one after the other, as long as every call
\* read time() strictly before (time of the first store + ttl), the time of a
\* store being the time() the store read in line 221, the wrapped
\* operation has been invoked exactly once, counting from the invocation whose
\* value was stored first, and every call that has ended returned the value
\* of that invocation. (Invocations that raised before anything was stored
\* are the subject of C6.)
C4_OneInvocationWithinTtl ==
    \A k \in Keys :
        LET h == c_hist[k]
        IN  (h.serial /\ h.first # -1 /\ ~h.late) =>
                /\ h.invSince = 1
                /\ h.lastOutcome \in {"pending", "hit", "stored"}
                /\ h.lastOutcome # "pending" => h.lastRet = h.firstVal

C4_Witness ==
    \E k \in Keys :
        LET h == c_hist[k]
        IN  /\ h.serial
            /\ h.first # -1
            /\ now > h.first
            /\ ~h.late
            /\ h.lastOutcome = "hit"
            /\ h.invSince = 1

\* C5: a call returns the value it read only when it reads time() strictly
\* before the entry's expiry instant (the time() its store read + ttl); a call
\* that reads time() at or after that instant invokes the wrapped operation,
\* the value it returns is stored with the expiry instant the store computed
\* from its own reading of time(), and, with the calls one after
\* the other, that fresh value is returned; with ttl = 0 no call returns a
\* stored value.
C5_NoExpiredValueReturned ==
    /\ [][\A c \in Callers :
            /\ (c_act[c].pc = "looked" /\ c_act'[c].pc = "idle") =>
                  now < c_act[c].seenAt + ttl
            /\ (c_act[c].pc = "looked" /\ c_act'[c].pc # "looked"
                    /\ now >= c_act[c].seenAt + ttl) =>
                  c_act'[c].pc = "in_func"
            /\ (c_act[c].pc = "timed" /\ c_act'[c].pc = "stored") =>
                  cache'[c_act[c].key] =
                      [value |-> c_act[c].fresh, eol |-> c_act[c].t + ttl]
            /\ (c_act[c].pc = "stored" /\ c_act'[c].pc = "idle"
                    /\ c_hist[c_act[c].key].serial) =>
                  c_hist'[c_act[c].key].lastRet = c_act[c].fresh]_vars
    /\ [](\A k \in Keys : ttl = 0 => c_hist[k].lastOutcome # "hit")

C5_Witness ==
    \E k \in Keys :
        /\ ttl > 0
        /\ c_hist[k].serial
        /\ c_hist[k].late
        /\ c_hist[k].invSince = 2
        /\ c_hist[k].lastOutcome = "stored"
        /\ c_hist[k].lastRet # c_hist[k].firstVal

\* C6: a call in which the wrapped operation raises ends with the exception
\* and leaves the cache as it was, and, with the calls one after the other,
\* the next call with the same arguments invokes the operation again.
C6_FailureNotMemoized ==
    /\ [][\A c \in Callers :
            (c_act[c].pc = "in_func" /\ c_act'[c].pc = "idle") =>
                /\ cache' = cache
                /\ c_hist'[c_act[c].key].lastOutcome = "raised"
                /\ c_hist'[c_act[c].key].lastRet = None]_vars
    /\ [](\A k \in Keys :
            (c_hist[k].serial /\ c_hist[k].prevRaised) =>
                c_hist[k].lastOutcome \in {"pending", "stored", "raised"})

C6_Witness ==
    \E k \in Keys :
        /\ c_hist[k].serial
        /\ c_hist[k].prevRaised
        /\ c_hist[k].lastOutcome = "stored"

(***************************************************************************)
(* Properties of info_to_dict (checked under SpecParser)                   *)
(***************************************************************************)
\* the field-strings of the parsed text
Fields == info_to_list(p_value, p_delim)

\* a field-string split at its first "=" (for a field-string that has one)
KeyOf(f) == SubSeq(f, 1, FirstIndex(f, "=") - 1)
RestOf(f) == SubSeq(f, FirstIndex(f, "=") + 1, Len(f))

\* a field-string of the form key=value with exactly one "="
WellFormed(f) == Contains(f, "=") /\ ~Contains(RestOf(f), "=")

\* C7: in strict mode the record is the one obtained from the text without
\* the field-strings that lack "=".
C7_StrictDiscardsFieldsWithoutPair ==
    (p_pc = "done" /\ p_strict) =>
        p_out = info_to_dict(
                    Join(SelectSeq(Fields, LAMBDA f : Contains(f, "=")), <<p_delim>>),
                    p_delim, TRUE)

\* C8: when every field-string has "=" and the keys are pairwise distinct, the
\* record maps the part of each field-string before its first "=" to the whole
\* remainder after it.
C8_SplitAtFirstPairDelimiter ==
    (/\ p_pc = "done"
     /\ \A i \in 1..Len(Fields) : Contains(Fields[i], "=")
     /\ \A i, j \in 1..Len(Fields) : i # j => KeyOf(Fields[i]) # KeyOf(Fields[j])) =>
        \A i \in 1..Len(Fields) :
            /\ KeyOf(Fields[i]) \in DOMAIN p_out
            /\ p_out[KeyOf(Fields[i])] = RestOf(Fields[i])

\* the values of the fields with key k, in text order
ValuesOf(k) ==
    LET mine == SelectSeq(Fields, LAMBDA f : KeyOf(f) = k)
    IN  [i \in 1..Len(mine) |-> RestOf(mine[i])]

\* C9: in a text of key=value fields, a key that two or more fields give
\* distinct values is mapped to all of its values, sorted and joined with ",",
\* wherever those fields stand.
C9_SharedKeyCoalesced ==
    (p_pc = "done" /\ \A i \in 1..Len(Fields) : WellFormed(Fields[i])) =>
        \A i, j \in 1..Len(Fields) :
            (KeyOf(Fields[i]) = KeyOf(Fields[j]) /\ RestOf(Fields[i]) # RestOf(Fields[j])) =>
                /\ KeyOf(Fields[i]) \in DOMAIN p_out
                /\ p_out[KeyOf(Fields[i])] =
                      Join(Sorted(ValuesOf(KeyOf(Fields[i]))), <<",">>)

Text_a1_a2 == <<"a", "=", "1", ";", "a", "=", "2">>
Text_a2_a1 == <<"a", "=", "2", ";", "a", "=", "1">>
Text_a1_a1 == <<"a", "=", "1", ";", "a", "=", "1">>

\* C10: with the default settings 'a=1;a=2' yields a = '1,2' and 'a=1;a=1'
\* yields a = '1,1'; in general a text whose fields all give a value to the
\* same key yields every one of these values, repeated ones included, in
\* sorted order.
C10_DuplicatesNotDeduplicated ==
    (p_pc = "done" /\ p_delim = ";" /\ p_strict) =>
        /\ p_value \in {Text_a1_a2, Text_a2_a1} =>
              p_out = (<<"a">> :> <<"1", ",", "2">>)
        /\ p_value = Text_a1_a1 => p_out = (<<"a">> :> <<"1", ",", "1">>)
        /\ (/\ Len(Fields) > 1
            /\ \A i \in 1..Len(Fields) :
                  WellFormed(Fields[i]) /\ KeyOf(Fields[i]) = KeyOf(Fields[1])) =>
              /\ DOMAIN p_out = {KeyOf(Fields[1])}
              /\ Len(p_out[KeyOf(Fields[1])]) =
                    Len(Join(ValuesOf(KeyOf(Fields[1])), <<",">>))
              /\ p_out[KeyOf(Fields[1])] =
                    Join(Sorted(ValuesOf(KeyOf(Fields[1]))), <<",">>)

C10_Witness ==
    /\ p_pc = "done"
    /\ p_delim = ";"
    /\ p_strict
    /\ p_value = Text_a1_a1
    /\ p_out[<<"a">>] = <<"1", ",", "1">>

\* C11: a text of key=value fields with pairwise distinct keys, the values
\* holding neither the field delimiter nor "=", yields the record with exactly
\* these keys, each mapped to exactly its value.
C11_WellFormedRoundTrip ==
    (/\ p_pc = "done"
     /\ \A i \in 1..Len(Fields) : WellFormed(Fields[i])
     /\ \A i, j \in 1..Len(Fields) : i # j => KeyOf(Fields[i]) # KeyOf(Fields[j])) =>
        /\ p_exc = "none"
        /\ DOMAIN p_out = {KeyOf(Fields[i]) : i \in 1..Len(Fields)}
        /\ \A i \in 1..Len(Fields) : p_out[KeyOf(Fields[i])] = RestOf(Fields[i])

C11_Witness ==
    /\ p_pc = "done"
    /\ p_delim = ";"
    /\ p_strict
    /\ Len(Fields) = 3
    /\ \A i \in 1..Len(Fields) : WellFormed(Fields[i])
    /\ \A i, j \in 1..Len(Fields) : i # j => KeyOf(Fields[i]) # KeyOf(Fields[j])
    /\ DOMAIN p_out = {<<"a">>, <<"b">>, <<>>}

\* the positions of the field-strings that contain "="
KeptIdx == {i \in 1..Len(Fields) : Contains(Fields[i], "=")}

\* the position of the next field-string with "=" after position i, or one
\* past the end of the text
NextKept(i) ==
    LET later == {j \in KeptIdx : j > i} \cup {Len(Fields) + 1}
    IN  CHOOSE j \in later : \A k \in later : j <= k

\* the value of the field at position i followed by the field-strings without
\* "=" that stand between it and the next field with "=", rejoined with the
\* field delimiter
MergedValue(i) ==
    Join(<<RestOf(Fields[i])>> \o SubSeq(Fields, i + 1, NextKept(i) - 1), <<p_delim>>)

Text_dcname == <<"d", "c", "-", "n", "a", "m", "e">>
Text_nodes == <<"n", "o", "d", "e", "s">>

\* C12: in non-strict mode, when the fields with "=" are key=value fields with
\* pairwise distinct keys, the record has exactly their keys; each value is
\* extended by the following field-strings without "=", rejoined with the
\* field delimiter, and the field-strings without "=" that precede the first
\* field with "=" are dropped. 'dc-name=X:nodes=2000:10:3' split on ':' yields
\* nodes = '2000:10:3'.
C12_NonStrictMergesIntoPrevious ==
    (p_pc = "done" /\ ~p_strict) =>
        /\ (p_value = DcText /\ p_delim = ":") =>
              p_out = (Text_dcname :> <<"X">>
                       @@ Text_nodes :> <<"2", "0", "0", "0", ":", "1", "0", ":", "3">>)
        /\ (/\ \A i \in KeptIdx : WellFormed(Fields[i])
            /\ \A i, j \in KeptIdx : i # j => KeyOf(Fields[i]) # KeyOf(Fields[j])) =>
              /\ p_exc = "none"
              /\ DOMAIN p_out = {KeyOf(Fields[i]) : i \in KeptIdx}
              /\ \A i \in KeptIdx : p_out[KeyOf(Fields[i])] = MergedValue(i)

C12_Witness ==
    /\ p_pc = "done"
    /\ ~p_strict
    /\ p_delim = ":"
    /\ p_value = DcText
    /\ p_out[Text_nodes] = <<"2", "0", "0", "0", ":", "1", "0", ":", "3">>

\* no call of info_to_dict or of info_to_dict_multi_level on a text, in strict
\* or in non-strict mode, ends by an exception
ParsersNeverRaise ==
    p_pc \in {"done", "done_multi"} => p_exc = "none"

\* C13: no call of info_to_dict or of info_to_dict_multi_level on a text, in
\* strict or in non-strict mode, ends by an exception, and a malformed field
\* costs no more than itself: when the fields with "=" are key=value fields
\* with pairwise distinct keys, the record has no key but theirs, and each of
\* them that has a key is in the record, in strict mode with its own value
\* (the fields without "=" are omitted), in non-strict mode with its value
\* extended by the fields without "=" that follow it (they are merged).
C13_MalformedFieldOnlyLosesItself ==
    /\ ParsersNeverRaise
    /\ (/\ p_pc = "done"
        /\ \A i \in KeptIdx : WellFormed(Fields[i])
        /\ \A i, j \in KeptIdx : i # j => KeyOf(Fields[i]) # KeyOf(Fields[j])) =>
          /\ DOMAIN p_out \subseteq {KeyOf(Fields[i]) : i \in KeptIdx}
          /\ \A i \in KeptIdx :
                KeyOf(Fields[i]) # <<>> =>
                    /\ KeyOf(Fields[i]) \in DOMAIN p_out
                    /\ p_out[KeyOf(Fields[i])] =
                          IF p_strict THEN RestOf(Fields[i]) ELSE MergedValue(i)

\* the sections of the parsed text, and the record of the section at position i
Sections == info_to_list(p_value, p_delim)
SectionRecord(i) == info_to_dict(Sections[i], OtherDelimiter(p_delim), p_strict)

\* the positions in keyname of the names that record r contains
Matching(r) == {j \in 1..Len(m_keyname.names) : m_keyname.names[j] \in DOMAIN r}
FirstMatching(r) == CHOOSE j \in Matching(r) : \A k \in Matching(r) : j <= k

\* the values record r holds for the names of keyname
KeyValues(r) == {r[m_keyname.names[j]] : j \in Matching(r)}

\* C14: when no two sections hold the same value for a name of keyname, every
\* section with a non-empty record appears in the result under exactly one
\* key, the value it holds for the first name of keyname that it contains, and
\* a section that contains none of the names does not appear.
C14_SectionUnderFirstMatchingName ==
    (/\ p_pc = "done_multi"
     /\ m_keyname.kind \in {"str", "list"}
     /\ \A i, j \in 1..Len(Sections) :
           i # j => KeyValues(SectionRecord(i)) \cap KeyValues(SectionRecord(j)) = {}) =>
        \A i \in 1..Len(Sections) :
            LET r == SectionRecord(i)
                under == {k \in DOMAIN m_out : m_out[k] = r}
            IN  r # <<>> =>
                    IF Matching(r) = {} THEN under = {}
                    ELSE under = {r[m_keyname.names[FirstMatching(r)]]}

(***************************************************************************)
(* Properties of parse_peers_string                                        *)
(***************************************************************************)
\* the text the loop of lines 160-176 reads
LoopText(s) == IF StripWs(s) = <<>> THEN <<>> ELSE Unwrap(StripWs(s))

\* the number of brackets open before position i of t
Depth(t, i) ==
    Cardinality({j \in 1..(i - 1) : t[j] = "["}) - Cardinality({j \in 1..(i - 1) : t[j] = "]"})

\* the delimiters of t that no bracket encloses
SplitAt(t) == {i \in 1..Len(t) : t[i] = "," /\ Depth(t, i) = 0}

Max(S) == CHOOSE x \in S : \A y \in S : y <= x

\* the piece of t that ends just before position i
PieceBefore(t, i) ==
    SubSeq(t, Max({j \in SplitAt(t) : j < i} \cup {0}) + 1, i - 1)

\* C15: when the call returns, the elements are exactly the pieces of the text
\* between the delimiters that no bracket encloses, each without its outer
\* blanks, and the piece after the last such delimiter when it is not empty;
\* a delimiter inside brackets stays in its element. '[a,b],c' gives
\* ['[a,b]', 'c'].
C15_DelimiterSplitsOnlyOutsideBrackets ==
    (q_pc = "done" /\ q_exc = "none") =>
        LET t == LoopText(q_s)
            P == SplitAt(t)
            last == PieceBefore(t, Len(t) + 1)
        IN  /\ Len(q_out) = Cardinality(P) + (IF last # <<>> THEN 1 ELSE 0)
            /\ \A i \in P :
                  q_out[Cardinality({j \in P : j <= i})] = StripWs(PieceBefore(t, i))
            /\ last # <<>> => q_out[Len(q_out)] = StripWs(last)
            /\ q_s = Peers_ab_c => q_out = << <<"[", "a", ",", "b", "]">>, <<"c">> >>

C15_Witness ==
    /\ q_pc = "done"
    /\ q_exc = "none"
    /\ q_s = Peers_ab_c
    /\ q_out = << <<"[", "a", ",", "b", "]">>, <<"c">> >>

\* the first and the last character of s form one bracket pair: the bracket
\* opened at the first position is closed at the last and not before
OnePair(s) ==
    /\ s[1] = "[" /\ s[Len(s)] = "]"
    /\ \A i \in 2..Len(s) : Depth(s, i) > 0

\* the result the stripping rule of the claim gives
StripOnePair(s) ==
    LET t == StripWs(s)
        u == IF OnePair(t) THEN SubSeq(t, 2, Len(t) - 1) ELSE t
    IN  IF t = <<>> \/ u = <<>> THEN [exc |-> "none", out |-> <<>>] ELSE PeersBody(u)

\* C16: the first and the last character are removed only when they form one
\* bracket pair around the whole text: '[a,[b,c]]' gives ['a', '[b,c]'], and
\* '[a,b],[c,d]', whose first and last bracket belong to different groups, is
\* read unstripped and gives ['[a,b]', '[c,d]'].
C16_StripsOnlyOneEnclosingPair ==
    q_pc = "done" =>
        /\ [exc |-> q_exc, out |-> q_out] = StripOnePair(q_s)
        /\ q_s = Peers_a_bc =>
              q_out = << <<"a">>, <<"[", "b", ",", "c", "]">> >>
        /\ q_s = Peers_ab_cd =>
              q_out = << <<"[", "a", ",", "b", "]">>, <<"[", "c", ",", "d", "]">> >>

\* C17: for every text, a text with a closing bracket that no opening bracket
\* precedes included, the call returns a list and raises nothing.
C17_PeersNeverRaises ==
    q_pc = "done" => q_exc = "none"

(***************************************************************************)
(* Properties of CliView.group_output                                      *)
(***************************************************************************)
RECURSIVE Concat(_)
Concat(groups) == IF groups = <<>> THEN <<>> ELSE Head(groups) \o Concat(Tail(groups))

\* C18: for every text, with or without an escape sequence that no 'm' ends,
\* the groups yielded so far are, joined in order, the text read so far; the
\* generator comes to its end, and then the groups joined are the whole text.
C18_GroupsRejoinToText ==
    /\ [](Concat(g_groups) = SubSeq(g_output, 1, g_i - 1))
    /\ [](g_pc = "done" => Concat(g_groups) = g_output)
    /\ <>(g_pc = "done")

C18_Witness ==
    /\ g_pc = "done"
    /\ g_output = <<"a", ESC, "b", " ">>
    /\ g_groups = << <<"a">>, <<ESC, "b", " ">> >>

(***************************************************************************)
(* Properties of the diff highlighting                                     *)
(***************************************************************************)
Marks == {Inverse[1], Uninverse[1], Reset[1]}

IsChar(c) == c \notin Marks

\* C19: a frame diffed against itself, whether it holds escape sequences or
\* newlines or ends in an escape sequence, comes out as it is, with no
\* highlight mark in it.
C19_SelfDiffIsFrame ==
    (d_pc = "done" /\ d_previous = d_output) => d_result = d_output

\* for each character of a result, in order, whether a highlight is open
\* where it stands
RECURSIVE HighlightFlags(_, _)
HighlightFlags(res, open) ==
    IF res = <<>> THEN <<>>
    ELSE IF Head(res) = Inverse[1] THEN HighlightFlags(Tail(res), TRUE)
    ELSE IF Head(res) \in {Uninverse[1], Reset[1]} THEN HighlightFlags(Tail(res), FALSE)
    ELSE <<open>> \o HighlightFlags(Tail(res), open)

\* a frame with no escape character and no newline
PlainLine(frame) == \A k \in 1..Len(frame) : frame[k] \notin {ESC, "\n"}

\* C20: for two frames of the same length with no escape sequence and no
\* newline, the result is the current frame with exactly the characters that
\* differ from the previous frame at their position highlighted; 'abc' against
\* 'abd' highlights the third character alone.
C20_HighlightsExactlyTheDifferences ==
    (/\ d_pc = "done"
     /\ PlainLine(d_previous) /\ PlainLine(d_output)
     /\ Len(d_previous) = Len(d_output)) =>
        /\ SelectSeq(d_result, IsChar) = d_output
        /\ Len(HighlightFlags(d_result, FALSE)) = Len(d_output)
        /\ \A k \in 1..Len(d_output) :
              HighlightFlags(d_result, FALSE)[k] <=> (d_previous[k] # d_output[k])
        /\ (d_previous = Frame_abc /\ d_output = Frame_abd) =>
              d_result = <<"a", "b">> \o Inverse \o <<"d">> \o Reset

C20_Witness ==
    /\ d_pc = "done"
    /\ d_previous = Frame_abc
    /\ d_output = Frame_abd
    /\ d_result = <<"a", "b">> \o Inverse \o <<"d">> \o Reset

(***************************************************************************)
(* Properties of CliView.watch (checked under SpecWatch)                   *)
(***************************************************************************)
Stopped == w_pc \in {"returned", "raised"}

IsBanner(p) == p.kind = "banner"
IsBody(p) == p.kind = "body"
Banners == SelectSeq(w_printed, IsBanner)
Bodies == SelectSeq(w_printed, IsBody)

\* C21: whenever watch has returned or has let an exception through, after the
\* number of iterations was reached, after an interrupt or SystemExit in
\* ctrl.execute or in time.sleep, or after another failure of ctrl.execute,
\* sys.stdout is the original stream again.
C21_StdoutRestoredOnEveryExit ==
    Stopped => w_stdout = "real_stdout"

C21_Witness ==
    /\ w_pc = "raised"
    /\ w_exc = "Failure"
    /\ w_executes = 2
    /\ w_stdout = "real_stdout"

\* C22: with a number of iterations n >= 1 and no exception, ctrl.execute is
\* called n times in all, the banners carry the counts 1..n in order,
\* time.sleep is called n-1 times, and watch returns; a watch that has stopped
\* calls ctrl.execute no more, and a watch with n >= 1 does stop.
C22_ExactlyNIterations ==
    /\ []((w_num_iterations >= 1 /\ w_raised = "none") =>
             /\ w_executes <= w_num_iterations
             /\ Len(Banners) = w_executes
             /\ \A k \in 1..Len(Banners) :
                   Banners[k].count = k /\ Banners[k].of = w_num_iterations
             /\ w_pc = "returned" =>
                   /\ w_executes = w_num_iterations
                   /\ w_sleeps = w_num_iterations - 1
             /\ w_pc \in {"execute", "sleep"} => w_executes < w_num_iterations
             /\ w_pc = "sleep" => w_sleeps = w_executes
             /\ w_pc = "execute" => w_sleeps = w_executes)
    /\ [][Stopped => (w_executes' = w_executes /\ w_sleeps' = w_sleeps)]_vars
    /\ ((w_num_iterations >= 1) ~> Stopped)

C22_Witness ==
    /\ w_pc = "returned"
    /\ w_raised = "none"
    /\ w_num_iterations = 3
    /\ w_executes = 3
    /\ w_sleeps = 2

\* C23: a KeyboardInterrupt or SystemExit raised in ctrl.execute or in
\* time.sleep ends watch with a normal return; no exception reaches the caller.
C23_InterruptReturnsNormally ==
    (w_raised \in {"KeyboardInterrupt", "SystemExit"}) =>
        (w_pc = "returned" /\ w_exc = "none")

\* SystemExit during the first time.sleep
C23_Witness ==
    /\ w_raised = "SystemExit"
    /\ w_executes = 1
    /\ w_sleeps = 1
    /\ w_pc = "returned"
    /\ w_exc = "none"

\* C24: a failure of ctrl.execute that is no interrupt reaches the caller of
\* watch; the call that failed prints no banner and no result, and nothing but
\* the blank line of the finally clause follows.
C24_FailureReachesCaller ==
    (w_raised = "Failure") =>
        /\ w_pc = "raised"
        /\ w_exc = "Failure"
        /\ Len(Banners) = w_executes - 1
        /\ Len(Bodies) = w_executes - 1
        /\ w_sleeps = w_executes - 1
        /\ w_printed[Len(w_printed)] = BlankLine

C24_Witness ==
    /\ w_raised = "Failure"
    /\ w_exc = "Failure"
    /\ w_pc = "raised"
    /\ w_executes = 3

\* C25: with diff_highlight set, the result printed for every output after the
\* first is the highlighted difference to the output before it, an empty
\* output before it included; the first output, and every output when
\* diff_highlight is not set, is printed as it is.
C25_BodyIsDiffAfterFirst ==
    \A k \in 1..Len(Bodies) :
        Bodies[k].text =
            IF k >= 2 /\ w_diff_highlight
            THEN DiffHighlight(w_outputs[k - 1], w_outputs[k])
            ELSE w_outputs[k]

\* C30: after every iteration previous is the raw output of that iteration,
\* and the result of every iteration from the second on is computed against
\* the raw output of the iteration just before it: never against a
\* highlighted result, never against an older output.
C30_BaselineIsLastRawOutput ==
    /\ Len(w_outputs) >= 1 => w_previous = <<w_outputs[Len(w_outputs)]>>
    /\ Len(Bodies) = Len(w_outputs)
    /\ \A k \in 2..Len(Bodies) :
          Bodies[k].text =
              IF w_outputs[k - 1] # <<>> /\ w_diff_highlight
              THEN DiffHighlight(w_outputs[k - 1], w_outputs[k])
              ELSE w_outputs[k]

C30_Witness ==
    /\ w_diff_highlight
    /\ w_outputs = << <<"a">>, <<"a", "b">>, <<"b">> >>
    /\ w_previous = << <<"b">> >>
    /\ Bodies[2].text = <<"a">> \o Inverse \o <<"b">> \o Reset
    /\ Bodies[3].text = Inverse \o <<"b">> \o Reset

(***************************************************************************)
(* Further properties of the diff highlighting (checked under SpecDiff)    *)
(***************************************************************************)
IsVisible(group) == ~HasEsc(group)

\* the groups of a frame that are no escape sequences, in order
VisibleGroups(frame) == SelectSeq(group_output(frame), IsVisible)

\* C26: when the previous and the current frame differ, but only in their
\* escape sequences (what they hold, how many there are, where they stand,
\* further ones at the end of the current frame included), the result holds
\* no highlight mark.
C26_EscapeOnlyChangeNotHighlighted ==
    (/\ d_pc = "done"
     /\ d_previous # d_output
     /\ VisibleGroups(d_previous) = VisibleGroups(d_output)) =>
        \A k \in 1..Len(d_result) : IsChar(d_result[k])

\* C27: for every previous and current frame, the result without its
\* highlight marks is the text of the current frame: no group is dropped,
\* doubled or moved, a newline that was pushed back included.
C27_ResultKeepsCurrentText ==
    d_pc = "done" => SelectSeq(d_result, IsChar) = d_output

\* whether the marks of res are balanced when read with a highlight open or not
RECURSIVE Balanced(_, _)
Balanced(res, open) ==
    IF res = <<>> THEN ~open
    ELSE IF Head(res) = Inverse[1] THEN ~open /\ Balanced(Tail(res), TRUE)
    ELSE IF Head(res) = Uninverse[1] THEN open /\ Balanced(Tail(res), FALSE)
    ELSE IF Head(res) = Reset[1] THEN open /\ Tail(res) = <<>>
    ELSE Balanced(Tail(res), open)

\* C28: in every result an inverse mark stands only where no highlight is
\* open, an uninverse mark only where one is open, the reset mark only at the
\* end and only with a highlight open, and no highlight is open at the end.
C28_MarksBalanced ==
    d_pc = "done" => Balanced(d_result, FALSE)

C28_Witness ==
    /\ d_pc = "done"
    /\ d_previous = <<"a", "b">>
    /\ d_output = <<"b", "b", "a">>
    /\ d_result = Inverse \o <<"b">> \o Uninverse \o <<"b">> \o Inverse \o <<"a">> \o Reset

(***************************************************************************)
(* Further properties of CliView.group_output (checked under SpecGroup)    *)
(***************************************************************************)
\* the position of g_output at which the k-th group starts
StartOf(k) == Len(Concat(SubSeq(g_groups, 1, k - 1))) + 1

\* C29: every group yielded is the text of g_output at its place, and is
\* either one character other than the escape character, or starts with the
\* escape character and runs to the first 'm' after it, or to the end of the
\* text when no 'm' follows.
C29_GroupIsCharOrWholeEscape ==
    \A k \in 1..Len(g_groups) :
        LET group == g_groups[k]
            n == Len(group)
        IN  /\ n >= 1
            /\ group = SubSeq(g_output, StartOf(k), StartOf(k) + n - 1)
            /\ \/ n = 1 /\ group[1] # ESC
               \/ /\ group[1] = ESC
                  /\ \A j \in 2..(n - 1) : group[j] # "m"
                  /\ \/ n >= 2 /\ group[n] = "m"
                     \/ StartOf(k) + n - 1 = Len(g_output)

C29_Witness ==
    /\ g_pc = "done"
    /\ g_output = <<ESC, "a", "m", "m">>
    /\ g_groups = << <<ESC, "a", "m">>, <<"m">> >>

====
